---------------------------- MODULE Spec2Model ----------------------------
(***************************************************************************)
(* A model of sql.py: the header normaliser to_column_names, the cell      *)
(* coercion to_db_value, the CSV import and export commands, execute_sql   *)
(* with its 20-row preview, and the read-eval-print loop run_repl with its *)
(* SQLite connection.                                                      *)
(*                                                                         *)
(* A Python str is a sequence of one-character strings, so that the        *)
(* conversions (lowercasing, regular-expression substitution, int(),       *)
(* float(), str()) are computed and not assumed.  The characters of the    *)
(* currency test that are not ASCII are written "euro", "yen" and "pound". *)
(* A Python int is a sign and a magnitude, the magnitude a sequence of     *)
(* decimal digits without leading zeros: the integers of to_db_value go    *)
(* past 2^63 and past the largest double.                                  *)
(***************************************************************************)
EXTENDS Integers, Sequences, FiniteSets, TLC

VARIABLES
    \* run_repl: the session
    running,        \* the loop of run_repl is reading commands
    last_query,     \* run_repl's last_query (NoQuery is Python's None)
    committed,      \* the database file: what a commit has made durable
    working,        \* the connection's view: committed plus the open transaction
    files,          \* the CSV files that export has written
    cmd,            \* the lines the last command read from input()
    prompts,        \* the prompts input() showed during the last command
    out,            \* the lines the last command printed
    executed,       \* the SQL statements the last command handed to SQLite
    failed_batch,   \* history: the batch whose executemany raised last
    \* import_: the batch loop, lines 92-108, one step per iteration
    total_rows,     \* the number of data rows of the CSV file
    bad_row,        \* the first data row with a wrong number of cells (0: none)
    pc,             \* the loop's position
    reader,         \* the number of rows the csv.reader has handed out
    count,          \* import_'s count
    rows,           \* import_'s rows: the batch just read, <<first, last>>
    pending,        \* the number of rows the open transaction has inserted
    durable,        \* the number of rows a commit has made durable
    trace,          \* what the loop has done: its prints, inserts and commits
    \* to_column_names
    header_row,     \* the argument row
    column_names,   \* the returned list
    names_done,     \* the call has returned
    \* to_db_value
    cell,           \* the argument str_
    db_value,       \* the returned value, or the exception raised
    value_done      \* the call has returned or raised

replVars == <<running, last_query, committed, working, files, cmd, prompts, out,
              executed, failed_batch>>
importVars == <<total_rows, bad_row, pc, reader, count, rows, pending, durable,
                trace>>
namesVars == <<header_row, column_names, names_done>>
valueVars == <<cell, db_value, value_done>>
vars == <<replVars, importVars, namesVars, valueVars>>

-----------------------------------------------------------------------------
(* Strings *)

Digits == <<"0", "1", "2", "3", "4", "5", "6", "7", "8", "9">>
UpperCase == <<"A", "B", "C", "D", "E", "F", "G", "H", "I", "J", "K", "L", "M",
               "N", "O", "P", "Q", "R", "S", "T", "U", "V", "W", "X", "Y", "Z">>
LowerCase == <<"a", "b", "c", "d", "e", "f", "g", "h", "i", "j", "k", "l", "m",
               "n", "o", "p", "q", "r", "s", "t", "u", "v", "w", "x", "y", "z">>

Range(s) == {s[i] : i \in DOMAIN s}

IsDigit(c) == c \in Range(Digits)

DigitValue(c) == (CHOOSE i \in DOMAIN Digits : Digits[i] = c) - 1

\* str.lower() of one character
Lower(c) ==
    IF c \in Range(UpperCase)
    THEN LowerCase[CHOOSE i \in DOMAIN UpperCase : UpperCase[i] = c]
    ELSE c

LowerStr(s) == [i \in DOMAIN s |-> Lower(s[i])]

\* str(n) of a natural number: its decimal digits
RECURSIVE ToStr(_)
ToStr(n) ==
    IF n < 10 THEN <<Digits[n + 1]>>
    ELSE Append(ToStr(n \div 10), Digits[(n % 10) + 1])

\* s with the elements at the positions in keep, in order
RECURSIVE KeepBetween(_, _, _, _)
KeepBetween(s, keep, low, high) ==
    IF low > high THEN <<>>
    ELSE IF low = high THEN (IF low \in keep THEN <<s[low]>> ELSE <<>>)
    ELSE KeepBetween(s, keep, low, (low + high) \div 2)
            \o KeepBetween(s, keep, ((low + high) \div 2) + 1, high)
Keep(s, keep) == KeepBetween(s, keep, 1, Len(s))

-----------------------------------------------------------------------------
(* to_column_names *)

\* the class [a-z0-9_] of line 29
IsNameChar(c) == c \in Range(LowerCase) \cup Range(Digits) \cup {"_"}

\* line 29: re.sub(r'[^a-z0-9_]', '_', str_.lower())
Substituted(s) ==
    [i \in DOMAIN s |-> IF IsNameChar(Lower(s[i])) THEN Lower(s[i]) ELSE "_"]

\* A mutant of Collapsed that spares the runs at the start and at the end.
CollapsedInteriorOnly(s) ==
    LET lead == {i \in DOMAIN s : \A j \in 1..i : s[j] = "_"}
        trail == {i \in DOMAIN s : \A j \in i..Len(s) : s[j] = "_"}
    IN Keep(s, {i \in DOMAIN s :
                  \/ i \in lead \cup trail
                  \/ ~(s[i] = "_" /\ i > 1 /\ s[i - 1] = "_")})

\* line 30: re.sub(r'(?<=_)_+', '', str_).  A match starts at an underscore
\* that follows an underscore and takes the rest of the run, so what is
\* deleted is every underscore whose left neighbour is an underscore.
Collapsed(s) ==
    Keep(s, {i \in DOMAIN s : ~(s[i] = "_" /\ i > 1 /\ s[i - 1] = "_")})

\* lines 29-30
Normalised(s) == Collapsed(Substituted(s))

\* lines 32-34: the first suffix, from 2, whose name is not in the set
RECURSIVE FreeSuffix(_, _, _)
FreeSuffix(s, column_name_set, suffix) ==
    IF (s \o ToStr(suffix)) \in column_name_set
    THEN FreeSuffix(s, column_name_set, suffix + 1)
    ELSE suffix

\* A mutant of Unique that always takes the suffix 2.
UniqueSuffixTwo(s, column_name_set) ==
    IF s \in column_name_set THEN s \o ToStr(2) ELSE s

\* lines 31-35
Unique(s, column_name_set) ==
    IF s \in column_name_set
    THEN s \o ToStr(FreeSuffix(s, column_name_set, 2))
    ELSE s

\* lines 28-37: the loop from position i with the names found so far
RECURSIVE NamesFrom(_, _, _)
NamesFrom(row, i, names) ==
    IF i > Len(row) THEN names
    ELSE NamesFrom(row, i + 1,
                   Append(names, Unique(Normalised(row[i]), Range(names))))

\* lines 26-38
to_column_names(row) == NamesFrom(row, 1, <<>>)

-----------------------------------------------------------------------------
(* to_db_value *)

\* A value of SQLite as Python holds it.  tag is "Null" (None), "Integer"
\* (an int: sign neg, magnitude txt), "Float" (the double nearest to the
\* decimal literal txt) or "Text" (the str txt).  An exception that leaves
\* to_db_value has its class as tag.
Value(tag, neg, txt) == [tag |-> tag, neg |-> neg, txt |-> txt]
Null == Value("Null", FALSE, <<>>)
Text(s) == Value("Text", FALSE, s)
Float(literal) == Value("Float", FALSE, literal)
Integer(neg, mag) == Value("Integer", neg, mag)
Raised(class) == Value(class, FALSE, <<>>)

\* line 45: the characters '$', U+20AC, U+00A5, U+00A3
Currency == {"$", "euro", "yen", "pound"}

\* str.strip() of the blanks the model draws
Strip(s) ==
    LET inked == {i \in DOMAIN s : s[i] # " "}
    IN IF inked = {} THEN <<>>
       ELSE SubSeq(s, CHOOSE i \in inked : \A j \in inked : i <= j,
                      CHOOSE i \in inked : \A j \in inked : j <= i)

Unsigned(s) == IF s # <<>> /\ s[1] \in {"+", "-"} THEN Tail(s) ELSE s

\* Python's digitpart: digits, with single underscores between digits
IsDigitPart(s) ==
    /\ s # <<>>
    /\ IsDigit(s[1]) /\ IsDigit(s[Len(s)])
    /\ \A i \in DOMAIN s : IsDigit(s[i]) \/ (s[i] = "_" /\ IsDigit(s[i + 1]))

\* digits without their leading zeros; "0" when every digit is a zero
StripZeros(s) ==
    LET nonzero == {i \in DOMAIN s : s[i] # "0"}
    IN IF nonzero = {} THEN <<"0">>
       ELSE SubSeq(s, CHOOSE i \in nonzero : \A j \in nonzero : i <= j, Len(s))

\* The magnitude of a digitpart
Magnitude(s) == StripZeros(Keep(s, {i \in DOMAIN s : s[i] # "_"}))

\* a < b for magnitudes
MagLess(a, b) ==
    \/ Len(a) < Len(b)
    \/ /\ Len(a) = Len(b)
       /\ \E i \in DOMAIN a :
            /\ DigitValue(a[i]) < DigitValue(b[i])
            /\ \A j \in 1..(i - 1) : a[j] = b[j]

\* line 51: int(str_without_currency).  ok is FALSE for a ValueError.
IntParse(s) ==
    LET t == Strip(s)
        body == Unsigned(t)
    IN IF IsDigitPart(body)
       THEN [ok |-> TRUE,
             neg |-> t[1] = "-" /\ Magnitude(body) # <<"0">>,
             mag |-> Magnitude(body)]
       ELSE [ok |-> FALSE, neg |-> FALSE, mag |-> <<>>]

\* str(value) of an int
IntStr(neg, mag) == (IF neg THEN <<"-">> ELSE <<>>) \o mag

FirstIndex(s, set) ==
    IF \E i \in DOMAIN s : s[i] \in set
    THEN CHOOSE i \in DOMAIN s : s[i] \in set /\ \A j \in 1..(i - 1) : s[j] \notin set
    ELSE 0

\* Python's floatnumber without its sign and exponent
IsPointFloat(s) ==
    LET dot == FirstIndex(s, {"."})
        whole == SubSeq(s, 1, dot - 1)
        fraction == SubSeq(s, dot + 1, Len(s))
    IN IF dot = 0 THEN IsDigitPart(s)
       ELSE \/ IsDigitPart(whole) /\ (fraction = <<>> \/ IsDigitPart(fraction))
            \/ whole = <<>> /\ IsDigitPart(fraction)

\* lines 59-60: whether float(str_without_currency) returns (TRUE) or raises
\* ValueError (FALSE)
FloatParses(s) ==
    LET body == Unsigned(Strip(s))
        e == FirstIndex(body, {"e", "E"})
    IN \/ LowerStr(body) \in {<<"i", "n", "f">>, <<"n", "a", "n">>,
                              <<"i", "n", "f", "i", "n", "i", "t", "y">>}
       \/ e = 0 /\ IsPointFloat(body)
       \/ /\ e > 0
          /\ IsPointFloat(SubSeq(body, 1, e - 1))
          /\ IsDigitPart(Unsigned(SubSeq(body, e + 1, Len(body))))

\* 2^63
Int63 ==
    <<"9", "2", "2", "3", "3", "7", "2", "0", "3", "6",
      "8", "5", "4", "7", "7", "5", "8", "0", "8">>

\* line 52: -2 ** 63 <= value < 2 ** 63
InInt64(neg, mag) ==
    IF neg THEN ~MagLess(Int63, mag) ELSE MagLess(mag, Int63)

\* 2^1024 - 2^970: float() of an int rounds to the nearest double, ties to
\* even, and every int from here on rounds to 2^1024, which no double holds.
FloatOverflowMin ==
    <<"1", "7", "9", "7", "6", "9", "3", "1", "3", "4", "8", "6", "2", "3", "1", "5", "8", "0", "7", "9",
    "3", "7", "2", "8", "9", "7", "1", "4", "0", "5", "3", "0", "3", "4", "1", "5", "0", "7", "9", "9",
    "3", "4", "1", "3", "2", "7", "1", "0", "0", "3", "7", "8", "2", "6", "9", "3", "6", "1", "7", "3",
    "7", "7", "8", "9", "8", "0", "4", "4", "4", "9", "6", "8", "2", "9", "2", "7", "6", "4", "7", "5",
    "0", "9", "4", "6", "6", "4", "9", "0", "1", "7", "9", "7", "7", "5", "8", "7", "2", "0", "7", "0",
    "9", "6", "3", "3", "0", "2", "8", "6", "4", "1", "6", "6", "9", "2", "8", "8", "7", "9", "1", "0",
    "9", "4", "6", "5", "5", "5", "5", "4", "7", "8", "5", "1", "9", "4", "0", "4", "0", "2", "6", "3",
    "0", "6", "5", "7", "4", "8", "8", "6", "7", "1", "5", "0", "5", "8", "2", "0", "6", "8", "1", "9",
    "0", "8", "9", "0", "2", "0", "0", "0", "7", "0", "8", "3", "8", "3", "6", "7", "6", "2", "7", "3",
    "8", "5", "4", "8", "4", "5", "8", "1", "7", "7", "1", "1", "5", "3", "1", "7", "6", "4", "4", "7",
    "5", "7", "3", "0", "2", "7", "0", "0", "6", "9", "8", "5", "5", "5", "7", "1", "3", "6", "6", "9",
    "5", "9", "6", "2", "2", "8", "4", "2", "9", "1", "4", "8", "1", "9", "8", "6", "0", "8", "3", "4",
    "9", "3", "6", "4", "7", "5", "2", "9", "2", "7", "1", "9", "0", "7", "4", "1", "6", "8", "4", "4",
    "4", "3", "6", "5", "5", "1", "0", "7", "0", "4", "3", "4", "2", "7", "1", "1", "5", "5", "9", "6",
    "9", "9", "5", "0", "8", "0", "9", "3", "0", "4", "2", "8", "8", "0", "1", "7", "7", "9", "0", "4",
    "1", "7", "4", "4", "9", "7", "7", "9", "2">>

\* line 55: float(value) of an int
FloatOfInt(neg, mag) ==
    IF MagLess(mag, FloatOverflowMin)
    THEN Float(IntStr(neg, mag))
    ELSE Raised("OverflowError")

\* lines 45-48
WithoutCurrency(str_) == IF str_[1] \in Currency THEN Tail(str_) ELSE str_

\* lines 43-62
to_db_value(str_) ==
    IF str_ = <<>> THEN Null
    ELSE LET str_without_currency == WithoutCurrency(str_)
             value == IntParse(str_without_currency)
         IN IF value.ok
            THEN (IF InInt64(value.neg, value.mag)
                  THEN Integer(value.neg, value.mag)
                  ELSE FloatOfInt(value.neg, value.mag))
            ELSE IF FloatParses(str_without_currency)
                 THEN Float(Strip(str_without_currency))
            ELSE Text(str_)

-----------------------------------------------------------------------------
(* What the session reads, prints and stores *)

\* A printed line: its text with the number and the cells it carries
Line(text, n, cells) == [text |-> text, n |-> n, cells |-> cells]
Message(text) == Line(text, 0, <<>>)
ErrorLine(message) == Message(message)

\* Lines 76, 83 and 235, and the exceptions of Python and SQLite that line 239
\* prints after "Error: "
Errors == {"Error: No such file or directory",
           "Error: ",
           "Error: There is no header in row 1, column",
           "Error: The table name may not contain a quotation mark.",
           "Error: table already exists",
           "Error: no such table",
           "Error: syntax error",
           "Error: Incorrect number of bindings supplied.",
           "Error: int too large to convert to float",
           "Error: cannot access local variable 'index'"}

IsError(lines) == lines # <<>> /\ lines[Len(lines)].text \in Errors

Last(s) == s[Len(s)]

Min(a, b) == IF a < b THEN a ELSE b

Max(set) == CHOOSE x \in set : \A y \in set : y <= x

Take(s, n) == SubSeq(s, 1, Min(n, Len(s)))

Drop(s, n) == SubSeq(s, n + 1, Len(s))

\* The table names the operator types at line 81
PlainName == <<"t">>
QuotedName == <<"t", "\"">>
TableNames == {PlainName}

\* A table of the database; NoTable when the name has none
NoTable == [exists |-> FALSE, columns |-> <<>>, rows |-> <<>>]
Table(columns, table_rows) == [exists |-> TRUE, columns |-> columns, rows |-> table_rows]
EmptyStore == [name \in TableNames |-> NoTable]

\* What the operator types at line 227 other than import and export, and
\* line 224's None
Statement(op, table) == [op |-> op, table |-> table]
NoQuery == Statement("None", <<>>)
Select(table) == Statement("SELECT * FROM", table)
Delete(table) == Statement("DELETE FROM", table)
DropTable(table) == Statement("DROP TABLE", table)
Garbage == Statement("garbage", <<>>)
Statements ==
    {Select(t) : t \in TableNames} \cup {Delete(t) : t \in TableNames}
        \cup {DropTable(t) : t \in TableNames} \cup {Garbage}

\* cursor.execute(query) at lines 127 and 178: SQLite's answer on the
\* connection's view.  error is "" unless the call raises; has_description is
\* cursor.description is not None; result is the rows the cursor will hand out.
Answer(error, has_description, description, result, rowcount, store) ==
    [error |-> error, has_description |-> has_description,
     description |-> description, result |-> result, rowcount |-> rowcount,
     store |-> store]
Execute(query, store) ==
    IF query.op \notin {"SELECT * FROM", "DELETE FROM", "DROP TABLE"}
    THEN Answer("Error: syntax error", FALSE, <<>>, <<>>, -1, store)
    ELSE IF ~store[query.table].exists
    THEN Answer("Error: no such table", FALSE, <<>>, <<>>, -1, store)
    ELSE IF query.op = "SELECT * FROM"
    THEN Answer("", TRUE, store[query.table].columns, store[query.table].rows, -1, store)
    ELSE IF query.op = "DELETE FROM"
    THEN Answer("", FALSE, <<>>, <<>>, Len(store[query.table].rows),
                [store EXCEPT ![query.table].rows = <<>>])
    ELSE Answer("", FALSE, <<>>, <<>>, -1, [store EXCEPT ![query.table] = NoTable])

-----------------------------------------------------------------------------
(* print_table and execute_sql *)

\* The text Python prints for the double nearest to a literal: not computed
FloatRepr(literal) == <<"repr(">> \o literal \o <<")">>

\* str(value) at lines 154 and 159
PyStr(value) ==
    CASE value.tag = "Null" -> <<"N", "o", "n", "e">>
      [] value.tag = "Integer" -> IntStr(value.neg, value.txt)
      [] value.tag = "Float" -> FloatRepr(value.txt)
      [] OTHER -> value.txt

\* line 159: the value and its padding
Padded(s, width) == s \o [i \in 1..(width - Len(s)) |-> " "]

\* lines 149-160: the lines print_table prints
print_table(table) ==
    IF table = <<>> THEN <<>>
    ELSE LET widths == [index \in DOMAIN table[1] |->
                           Max({0} \cup {Len(PyStr(table[r][index])) : r \in DOMAIN table})]
         IN [r \in DOMAIN table |->
                Line("|", 0, [index \in DOMAIN table[r] |->
                                 Padded(PyStr(table[r][index]), widths[index])])]

\* line 181: range(20)
PreviewRows == 20

\* lines 186-190
NullsShown(row) ==
    [i \in DOMAIN row |->
        IF row[i].tag # "Null" THEN row[i] ELSE Text(<<"N", "U", "L", "L">>)]

\* lines 180-191: the loop from index, the cursor having handed out index rows
RECURSIVE Fetched(_, _, _)
Fetched(result, index, fetched) ==
    IF index >= PreviewRows \/ index >= Len(result) THEN fetched
    ELSE Fetched(result, index + 1, Append(fetched, NullsShown(result[index + 1])))

\* A mutant of Summary that takes a full preview for a truncated one.
SummaryByCount(result, fetched) ==
    IF fetched # <<>>
    THEN (IF Len(fetched) = PreviewRows
          THEN Message("Output first 20 rows.")
          ELSE Line("Output all row(s).", Len(fetched), <<>>))
    ELSE Message("Query returned zero rows.")

\* lines 196-202: the cursor has handed out Len(fetched) rows, so the
\* fetchone of line 197 returns a row exactly when the result has more
Summary(result, fetched) ==
    IF fetched # <<>>
    THEN (IF Len(fetched) < Len(result)
          THEN Message("Output first 20 rows.")
          ELSE Line("Output all row(s).", Len(fetched), <<>>))
    ELSE Message("Query returned zero rows.")

\* lines 193-209: what execute_sql prints for an answer
Report(answer) ==
    IF answer.has_description
    THEN LET fetched == Fetched(answer.result, 0, <<>>)
             header == [i \in DOMAIN answer.description |-> Text(answer.description[i])]
         IN Append(print_table(<<header>> \o fetched), Summary(answer.result, fetched))
    ELSE IF answer.rowcount >= 0
         THEN <<Line("Modified row(s).", answer.rowcount, <<>>)>>
         ELSE <<Message("Done.")>>

\* What a command has done to the session when it returns or raises
Outcome(store, durable_store, written, lines, shown, statements, batch) ==
    [working |-> store, committed |-> durable_store, files |-> written,
     out |-> lines, prompts |-> shown, executed |-> statements,
     failed_batch |-> batch]

\* lines 176-211.  returned is the value execute_sql returns; raised says
\* that it raised instead, at line 178, before the commit of line 179.
execute_sql(query, store, durable_store) ==
    LET answer == Execute(query, store)
    IN IF answer.error # ""
       THEN [raised |-> TRUE, returned |-> FALSE, out |-> <<ErrorLine(answer.error)>>,
             working |-> store, committed |-> durable_store]
       ELSE [raised |-> FALSE, returned |-> answer.has_description,
             out |-> Report(answer),
             working |-> answer.store, committed |-> answer.store]

-----------------------------------------------------------------------------
(* The CSV files to import *)

CsvFile(lines) == [exists |-> TRUE, lines |-> lines]
NoFile == [exists |-> FALSE, lines |-> <<>>]

Zeros(n) == [i \in 1..n |-> "0"]

\* A file of n data rows, every second one with an empty cell
Numbered(n) ==
    << << <<"I", "d">>, <<"N", "o", "t", "e">> >> >>
        \o [i \in 1..n |-> <<ToStr(i), IF i % 2 = 0 THEN <<>> ELSE <<"x">>>>]

ImportNames == {"pay.csv", "short.csv", "unnamed.csv", "empty.csv", "header.csv",
                "codes.csv", "huge.csv", "below.csv", "exact.csv", "above.csv",
                "many.csv", "missing.csv"}

\* open(filename) and csv.reader at lines 72-73: the rows of the file
Contents(filename) ==
    CASE filename = "pay.csv" ->
           CsvFile(<< << <<"N", "a", "m", "e">>, <<"A", "m", "o", "u", "n", "t">> >>,
                      << <<"A", "n", "n">>, <<"$", "5", "0">> >>,
                      << <<"B", "o">>, <<>> >> >>)
      [] filename = "short.csv" ->
           CsvFile(<< << <<"a">>, <<"b">> >>,
                      << <<"1">>, <<"2">> >>,
                      << <<"3">>, <<"4">> >>,
                      << <<"5">> >>,
                      << <<"6">>, <<"7">> >> >>)
      [] filename = "unnamed.csv" ->
           CsvFile(<< << <<"a">>, <<>> >>, << <<"1">>, <<"2">> >> >>)
      [] filename = "empty.csv" -> CsvFile(<<>>)
      [] filename = "header.csv" -> CsvFile(<< << <<"x">> >> >>)
      [] filename = "codes.csv" ->
           CsvFile(<< << <<"T", "o", "t", "a", "l">>, <<"t", "o", "t", "a", "l">> >>,
                      << <<"0", "0", "7">>, <<"euro", "-", "3">> >>,
                      << <<"$", "x">>, <<" ", "4", "2">> >> >>)
      [] filename = "huge.csv" ->
           CsvFile(<< << <<"n">> >>, << <<"1">> \o Zeros(309) >> >>)
      [] filename = "below.csv" -> CsvFile(Numbered(PreviewRows - 1))
      [] filename = "exact.csv" -> CsvFile(Numbered(PreviewRows))
      [] filename = "above.csv" -> CsvFile(Numbered(PreviewRows + 1))
      [] filename = "many.csv" -> CsvFile(Numbered(PreviewRows + 5))
      [] OTHER -> NoFile

-----------------------------------------------------------------------------
(* import_ *)

\* lines 93 and 107: islice(reader, 10000)
BatchSize == 10000

NoBatch == [table |-> <<>>, base |-> 0, batch |-> <<>>, inserted |-> 0]

\* line 101
Coerced(batch) ==
    [r \in DOMAIN batch |-> [c \in DOMAIN batch[r] |-> to_db_value(batch[r][c])]]

CoercionRaises(values) ==
    \E r \in DOMAIN values : \E c \in DOMAIN values[r] :
        values[r][c].tag = "OverflowError"

\* lines 102-105: executemany inserts the rows in order and raises at the
\* first whose number of values is not the number of columns; the rows before
\* it stay inserted in the open transaction.
Inserted(values, n_columns) ==
    LET wrong == {r \in DOMAIN values : Len(values[r]) # n_columns}
    IN IF wrong = {} THEN Len(values)
       ELSE (CHOOSE r \in wrong : \A q \in wrong : r <= q) - 1

\* lines 92-111: the loop with the reader's remaining rows and count = imported
RECURSIVE ImportBatches(_, _, _, _, _)
ImportBatches(remaining, imported, table_name, names, s) ==
    LET batch == Take(remaining, BatchSize)
        progress == IF imported > 0
                    THEN Append(s.out, Line("Imported rows...", imported, <<>>))
                    ELSE s.out
        values == Coerced(batch)
        inserted == Inserted(values, Len(names))
        store == [s.working EXCEPT
                    ![table_name].rows = @ \o SubSeq(values, 1, inserted)]
        statements == Append(s.executed, Statement("INSERT INTO", table_name))
    IN IF batch = <<>>
       THEN [s EXCEPT !.out = @ \o <<Line("Imported row(s).", imported, <<>>),
                                     Line("Imported table with columns.", 0, names)>>]
       ELSE IF CoercionRaises(values)
       THEN [s EXCEPT !.out =
                Append(progress, ErrorLine("Error: int too large to convert to float"))]
       ELSE IF inserted < Len(values)
       THEN [s EXCEPT !.out =
                Append(progress, ErrorLine("Error: Incorrect number of bindings supplied.")),
                      !.working = store,
                      !.executed = statements,
                      !.failed_batch =
                          [table |-> table_name,
                           base |-> Len(s.working[table_name].rows),
                           batch |-> values, inserted |-> inserted]]
       ELSE ImportBatches(Drop(remaining, BatchSize), imported + Len(batch),
                          table_name, names,
                          [s EXCEPT !.out = progress, !.working = store,
                                    !.committed = store, !.executed = statements])

ImportPrompt == "Enter a CSV file to import: "
TablePrompt == "Enter a SQL table name: "

\* lines 71-111.  s is the session as the command finds it.
import_(filename, table_name, s) ==
    LET file == Contents(filename)
        header == file.lines[1]
        names == to_column_names(header)
        reading == [s EXCEPT !.prompts = Append(@, ImportPrompt)]
        asked == [reading EXCEPT !.prompts = Append(@, TablePrompt)]
        create == Statement("CREATE TABLE", table_name)
        store == [s.working EXCEPT ![table_name] = Table(names, <<>>)]
    IN IF ~file.exists
       THEN [reading EXCEPT !.out = <<ErrorLine("Error: No such file or directory")>>]
       ELSE IF file.lines = <<>>
       THEN [reading EXCEPT !.out = <<ErrorLine("Error: ")>>]
       ELSE IF <<>> \in Range(header)
       THEN [reading EXCEPT !.out = <<Line("Error: There is no header in row 1, column",
                                     FirstIndex(header, {<<>>}), <<>>)>>]
       ELSE IF "\"" \in Range(table_name)
       THEN [asked EXCEPT !.out =
                <<ErrorLine("Error: The table name may not contain a quotation mark.")>>]
       ELSE IF s.working[table_name].exists
       THEN [asked EXCEPT !.out = <<ErrorLine("Error: table already exists")>>,
                          !.executed = <<create>>]
       ELSE ImportBatches(Drop(file.lines, 1), 0, table_name, names,
                          [asked EXCEPT !.working = store, !.committed = store,
                                        !.executed = <<create>>])

-----------------------------------------------------------------------------
(* export *)

\* line 134
ProgressEvery == 10000

ExportNames == {"out.csv", "/missing/out.csv"}
Writable(filename) == filename = "out.csv"

\* A mutant of CsvField that writes a null as the preview shows it.
CsvFieldShowingNull(value) ==
    IF value.tag = "Null" THEN <<"N", "U", "L", "L">> ELSE PyStr(value)

\* line 136: csv.writer writes None as the empty field and any other value
\* as its str()
CsvField(value) == IF value.tag = "Null" THEN <<>> ELSE PyStr(value)

\* lines 133-136: the loop at index, with the lines written and printed
RECURSIVE ExportRows(_, _, _, _)
ExportRows(result, index, lines, shown) ==
    IF index >= Len(result) THEN [lines |-> lines, out |-> shown]
    ELSE ExportRows(result, index + 1,
                    Append(lines, [c \in DOMAIN result[index + 1] |->
                                      CsvField(result[index + 1][c])]),
                    IF index % ProgressEvery = 0 /\ index > 0
                    THEN Append(shown, Line("Exported rows...", index, <<>>))
                    ELSE shown)

ExportPrompt ==
    "Enter a CSV file to store the results of the most recent SQL query in: "

\* lines 122-139.  The name index of line 137 is bound by the loop of line
\* 133, so with no row it is unbound and line 137 raises UnboundLocalError.
export(query, filename, s) ==
    LET answer == Execute(query, s.working)
        asked == [s EXCEPT !.prompts = Append(@, ExportPrompt),
                           !.executed = <<query>>]
        written == ExportRows(answer.result, 0, <<answer.description>>, <<>>)
        opened == [asked EXCEPT !.files[filename] = CsvFile(written.lines),
                                !.working = answer.store]
    IN IF answer.error # ""
       THEN [asked EXCEPT !.out = <<ErrorLine(answer.error)>>]
       ELSE IF ~Writable(filename)
       THEN [asked EXCEPT !.out = <<ErrorLine("Error: No such file or directory")>>,
                          !.working = answer.store]
       ELSE IF Len(answer.result) = 0
       THEN [opened EXCEPT !.out =
                Append(written.out, ErrorLine("Error: cannot access local variable 'index'"))]
       ELSE [opened EXCEPT !.out =
                Append(written.out,
                       Line("Exported row(s).", (Len(answer.result) - 1) + 1, <<>>))]

-----------------------------------------------------------------------------
(* The variables of a specification that does not use them *)

ReplIdle ==
    /\ running = FALSE /\ last_query = NoQuery
    /\ committed = EmptyStore /\ working = EmptyStore
    /\ files = [f \in ExportNames |-> NoFile]
    /\ cmd = <<>> /\ prompts = <<>> /\ out = <<>> /\ executed = <<>>
    /\ failed_batch = NoBatch

ImportIdle ==
    /\ total_rows = 0 /\ bad_row = 0 /\ pc = "idle" /\ reader = 0 /\ count = 0
    /\ rows = <<1, 0>> /\ pending = 0 /\ durable = 0 /\ trace = <<>>

NamesIdle == header_row = <<>> /\ column_names = <<>> /\ names_done = TRUE

ValueIdle == cell = <<>> /\ db_value = Null /\ value_done = TRUE

-----------------------------------------------------------------------------
(* run_repl *)

\* What the last command read: the line of line 227 (a statement is kept as
\* query), and the answers to the prompts of lines 71, 81 and 122
Command(line, query, filename, table_name) ==
    [line |-> line, query |-> query, filename |-> filename, table_name |-> table_name]

Banner == Message("Enter \"import\", \"export\", or a SQL query.")
NothingToExport == Message("You must enter a SQL query before exporting.")

\* lines 221-225
Init ==
    /\ running = TRUE
    /\ last_query = NoQuery
    /\ committed = EmptyStore
    /\ working = EmptyStore
    /\ files = [f \in ExportNames |-> NoFile]
    /\ cmd = Command("", NoQuery, "", <<>>)
    /\ prompts = <<>>
    /\ out = <<Banner>>
    /\ executed = <<>>
    /\ failed_batch = NoBatch
    /\ ImportIdle /\ NamesIdle /\ ValueIdle

\* The session as a command finds it, line 227's prompt shown
Session ==
    Outcome(working, committed, files, <<>>, <<"> ">>, <<>>, failed_batch)

Becomes(s) ==
    /\ working' = s.working
    /\ committed' = s.committed
    /\ files' = s.files
    /\ out' = s.out
    /\ prompts' = s.prompts
    /\ executed' = s.executed
    /\ failed_batch' = s.failed_batch

\* lines 229-230 and 238-239
ImportCommand ==
    /\ running
    /\ \E filename \in ImportNames, table_name \in {PlainName, QuotedName} :
         LET s == import_(filename, table_name, Session)
         IN /\ Becomes(s)
            /\ cmd' = Command("import", NoQuery, filename,
                              IF TablePrompt \in Range(s.prompts)
                              THEN table_name ELSE <<>>)
    /\ UNCHANGED <<running, last_query>>
    /\ UNCHANGED <<importVars, namesVars, valueVars>>

\* A mutant of ExportAllowed that exports whatever last_query holds.
ExportAlways(last) == TRUE

\* line 232
ExportAllowed(last) == last # NoQuery

\* lines 231-235 and 238-239
ExportCommand ==
    /\ running
    /\ \E filename \in ExportNames :
         IF ExportAllowed(last_query)
         THEN /\ Becomes(export(last_query, filename, Session))
              /\ cmd' = Command("export", NoQuery, filename, <<>>)
         ELSE /\ Becomes([Session EXCEPT !.out = <<NothingToExport>>])
              /\ cmd' = Command("export", NoQuery, "", <<>>)
    /\ UNCHANGED <<running, last_query>>
    /\ UNCHANGED <<importVars, namesVars, valueVars>>

\* A mutant of Remembered that remembers every statement that did not raise.
RememberedAlways(query, returned, last) == query

\* lines 236-237
Remembered(query, returned, last) == IF returned THEN query ELSE last

\* lines 236-239.  failed_batch forgets a batch whose table is dropped.
SqlCommand ==
    /\ running
    /\ \E query \in Statements :
         LET r == execute_sql(query, working, committed)
         IN /\ working' = r.working
            /\ committed' = r.committed
            /\ out' = r.out
            /\ last_query' = IF r.raised THEN last_query
                             ELSE Remembered(query, r.returned, last_query)
            /\ failed_batch' =
                 IF ~r.raised /\ query = DropTable(failed_batch.table)
                 THEN NoBatch ELSE failed_batch
            /\ executed' = <<query>>
            /\ cmd' = Command("sql", query, "", <<>>)
    /\ prompts' = <<"> ">>
    /\ UNCHANGED <<running, files>>
    /\ UNCHANGED <<importVars, namesVars, valueVars>>

\* line 227 raises (end of input, an interrupt) and lines 240-241 close the
\* connection, which drops the open transaction
Quit ==
    /\ running
    /\ running' = FALSE
    /\ working' = committed
    /\ cmd' = Command("EOF", NoQuery, "", <<>>)
    /\ prompts' = <<"> ">>
    /\ out' = <<>>
    /\ executed' = <<>>
    /\ UNCHANGED <<last_query, committed, files, failed_batch>>
    /\ UNCHANGED <<importVars, namesVars, valueVars>>

Next == ImportCommand \/ ExportCommand \/ SqlCommand \/ Quit

Spec == Init /\ [][Next]_vars

-----------------------------------------------------------------------------
(* import_'s loop, lines 92-108, one step per evaluation of line 93 or 107  *)
(* and per iteration.  The data rows are numbered 1..total_rows in the      *)
(* order of the file, and a batch is the interval of rows it holds.         *)

MaxRows == 20003

\* What the loop does, in order: "print" a progress line or the total (with
\* the count as first), "insert" the rows first..last, "commit"
Event(kind, first, last) == [kind |-> kind, first |-> first, last |-> last]

\* islice(reader, 10000) with the reader at position: the next rows
NextBatch(position) == <<position + 1, Min(position + BatchSize, total_rows)>>

BatchLen(batch) == IF batch[2] >= batch[1] THEN batch[2] - batch[1] + 1 ELSE 0

InitImport ==
    /\ total_rows \in 0..MaxRows
    /\ bad_row \in {b \in {0, 2, BatchSize + 2} : b <= total_rows}
    /\ pc = "start"
    /\ reader = 0 /\ count = 0 /\ rows = <<1, 0>>
    /\ pending = 0 /\ durable = 0 /\ trace = <<>>
    /\ ReplIdle /\ NamesIdle /\ ValueIdle

\* lines 92-93
ReadFirst ==
    /\ pc = "start"
    /\ count' = 0
    /\ rows' = NextBatch(reader)
    /\ reader' = reader + BatchLen(NextBatch(reader))
    /\ pc' = "loop"
    /\ UNCHANGED <<total_rows, bad_row, pending, durable, trace>>
    /\ UNCHANGED <<replVars, namesVars, valueVars>>

\* A mutant of ShowsProgress that reports before the first batch too.
ShowsProgressAlways(imported) == TRUE

\* line 95
ShowsProgress(imported) == imported > 0

\* lines 94-107, the batch not empty: the insert succeeds and is committed,
\* or executemany raises at bad_row, the rows of the batch before it inserted
ImportBatch ==
    /\ pc = "loop"
    /\ BatchLen(rows) > 0
    /\ count' = count + BatchLen(rows)
    /\ LET shown == IF ShowsProgress(count)
                    THEN Append(trace, Event("print", count, count)) ELSE trace
           inserted == Append(shown, Event("insert", rows[1], rows[2]))
       IN IF bad_row \in rows[1]..rows[2]
          THEN /\ pending' = pending + (bad_row - rows[1])
               /\ trace' = inserted
               /\ pc' = "raised"
               /\ UNCHANGED <<durable, rows, reader>>
          ELSE /\ pending' = 0
               /\ durable' = durable + pending + BatchLen(rows)
               /\ trace' = Append(inserted, Event("commit", count', count'))
               /\ rows' = NextBatch(reader)
               /\ reader' = reader + BatchLen(NextBatch(reader))
               /\ pc' = "loop"
    /\ UNCHANGED <<total_rows, bad_row>>
    /\ UNCHANGED <<replVars, namesVars, valueVars>>

\* lines 94 and 108, the batch empty
ReportTotal ==
    /\ pc = "loop"
    /\ BatchLen(rows) = 0
    /\ trace' = Append(trace, Event("total", count, count))
    /\ pc' = "done"
    /\ UNCHANGED <<total_rows, bad_row, reader, count, rows, pending, durable>>
    /\ UNCHANGED <<replVars, namesVars, valueVars>>

NextImport == ReadFirst \/ ImportBatch \/ ReportTotal

SpecImport == InitImport /\ [][NextImport]_vars

-----------------------------------------------------------------------------
(* to_column_names on the header rows of a bounded set *)

MaxNameLen == 4
MaxColumns == 3

\* The sequences over a set of length low..high
Strings(alphabet, low, high) == UNION {[1..n -> alphabet] : n \in low..high}

\* One header of any shape, or several headers that collide
HeaderRows ==
    {<<s>> : s \in Strings({"a", "B", "_", "-", "2"}, 1, MaxNameLen)}
        \cup Strings({<<"a">>, <<"A">>, <<"a", "2">>, <<"a", "2", "2">>, <<"a", "3">>,
                      <<"a", "_">>, <<"a", "_", "_">>, <<"a", "-">>,
                      <<"T", "o", "t", "a", "l">>, <<"t", "o", "t", "a", "l">>},
                     0, MaxColumns)

InitNames ==
    /\ header_row \in HeaderRows
    /\ column_names = <<>>
    /\ names_done = FALSE
    /\ ReplIdle /\ ImportIdle /\ ValueIdle

\* line 79: column_names = to_column_names(header_row)
CallToColumnNames ==
    /\ ~names_done
    /\ column_names' = to_column_names(header_row)
    /\ names_done' = TRUE
    /\ UNCHANGED header_row
    /\ UNCHANGED <<replVars, importVars, valueVars>>

NextNames == CallToColumnNames

SpecNames == InitNames /\ [][NextNames]_vars

-----------------------------------------------------------------------------
(* to_db_value on the cells of a bounded set *)

MaxCellLen == 3
MaxPower == 320

WithLastDigit(mag, digit) == [mag EXCEPT ![Len(mag)] = digit]

\* Cells: a currency character or none, a sign or none, and then a short
\* string, an integer next to 2^63, a power of ten, or an integer next to
\* the largest that float() converts
CellBodies ==
    Strings({"0", "7", ".", "e", "x", " ", "_"}, 0, MaxCellLen)
        \cup {Int63, WithLastDigit(Int63, "7"), WithLastDigit(Int63, "9")}
        \cup {<<"1">> \o Zeros(n) : n \in 0..MaxPower}
        \cup {FloatOverflowMin, WithLastDigit(FloatOverflowMin, "1")}

Cells ==
    {currency \o sign \o body :
        currency \in {<<>>, <<"$">>, <<"euro">>},
        sign \in {<<>>, <<"-">>, <<"+">>},
        body \in CellBodies}

InitValue ==
    /\ cell \in Cells
    /\ db_value = Null
    /\ value_done = FALSE
    /\ ReplIdle /\ ImportIdle /\ NamesIdle

\* line 101: to_db_value(str_), which returns or raises
CallToDbValue ==
    /\ ~value_done
    /\ db_value' = to_db_value(cell)
    /\ value_done' = TRUE
    /\ UNCHANGED cell
    /\ UNCHANGED <<replVars, importVars, namesVars>>

NextValue == CallToDbValue

SpecValue == InitValue /\ [][NextValue]_vars

-----------------------------------------------------------------------------
(* The claims *)

RowSummaries ==
    {"Output first 20 rows.", "Output all row(s).", "Query returned zero rows."}

\* The last command was a statement that execute_sql ran as row-producing:
\* it printed the table and one of the three summaries
RanRowProducing(command, lines) ==
    command.line = "sql" /\ lines # <<>> /\ Last(lines).text \in RowSummaries

LastQueryStep ==
    /\ RanRowProducing(cmd', out') => last_query' = cmd'.query
    /\ ~RanRowProducing(cmd', out') => last_query' = last_query
    /\ (cmd'.line = "sql" /\ IsError(out')) => running'

\* C1: last_query starts as None; a step of the session sets it to the
\* statement just typed when that statement ran as row-producing, and every
\* other step (a statement that raised, a mutating statement, an import, an
\* export) leaves it as it was; after a statement that raised the loop is
\* still reading commands.
LastQueryIsLastRowProducing == (last_query = NoQuery) /\ [][LastQueryStep]_vars

\* C1's case: a statement has raised after a row-producing one was remembered
FailedAfterRemembered ==
    /\ running
    /\ cmd = Command("sql", Garbage, "", <<>>)
    /\ IsError(out)
    /\ last_query = Select(PlainName)

ExportWithoutQueryStep ==
    (cmd'.line = "export" /\ last_query = NoQuery) =>
        /\ out' = <<NothingToExport>>
        /\ prompts' = <<"> ">>
        /\ cmd'.filename = ""
        /\ executed' = <<>>
        /\ files' = files
        /\ committed' = committed /\ working' = working
        /\ last_query' = NoQuery

\* C2: an export typed while last_query is None prints the one message,
\* shows no prompt but the loop's, reads no destination, runs no statement,
\* writes no file, and leaves the store and last_query as they were.
ExportWithoutQueryIsNoOp == [][ExportWithoutQueryStep]_vars

\* C2's case: the message came after an import had failed in its batch
NoOpExportAfterFailure ==
    /\ cmd.line = "export"
    /\ out = <<NothingToExport>>
    /\ last_query = NoQuery
    /\ failed_batch # NoBatch

\* The trace of a completed import of total rows: per batch a progress line
\* (not before the first), the insert of the next BatchSize rows or of the
\* rest, and a commit; then the total
RECURSIVE BatchesFrom(_, _)
BatchesFrom(first, total) ==
    IF first > total THEN <<Event("total", total, total)>>
    ELSE (IF first > 1 THEN <<Event("print", first - 1, first - 1)>> ELSE <<>>)
            \o <<Event("insert", first, Min(first + BatchSize - 1, total)),
                 Event("commit", Min(first + BatchSize - 1, total),
                       Min(first + BatchSize - 1, total))>>
            \o BatchesFrom(first + BatchSize, total)

\* C3: an import that completes has inserted the rows in the order of the
\* file in batches of 10,000 and a last batch of the rest when there is a
\* rest, none empty, has committed after each batch, has printed the count
\* of rows committed before each batch but the first, and reports the total.
ImportRunsInBatches ==
    pc = "done" =>
        /\ trace = BatchesFrom(1, total_rows)
        /\ Cardinality({i \in DOMAIN trace : trace[i].kind = "insert"})
             = (total_rows + BatchSize - 1) \div BatchSize
        /\ \A i \in DOMAIN trace :
             trace[i].kind = "insert" => trace[i].first <= trace[i].last
        /\ durable = total_rows /\ pending = 0
        /\ Last(trace) = Event("total", total_rows, total_rows)

\* C3's case: 10,003 rows
ImportedTenThousandAndThree ==
    /\ pc = "done"
    /\ total_rows = BatchSize + 3
    /\ trace = <<Event("insert", 1, BatchSize), Event("commit", BatchSize, BatchSize),
                 Event("print", BatchSize, BatchSize),
                 Event("insert", BatchSize + 1, BatchSize + 3),
                 Event("commit", BatchSize + 3, BatchSize + 3),
                 Event("total", BatchSize + 3, BatchSize + 3)>>

\* C4: to_column_names returns as many names as the row has headers, no two
\* of them equal; ["a", "a", "a2"], ["a2", "a", "a"] and ["Total", "total"]
\* give the names stated.
ColumnNamesAreDistinct ==
    names_done =>
        /\ Len(column_names) = Len(header_row)
        /\ \A i, j \in DOMAIN column_names : i # j => column_names[i] # column_names[j]
        /\ header_row = << <<"T", "o", "t", "a", "l">>, <<"t", "o", "t", "a", "l">> >>
             => column_names = << <<"t", "o", "t", "a", "l">>,
                                  <<"t", "o", "t", "a", "l", "2">> >>
        /\ header_row = << <<"a">>, <<"a">>, <<"a", "2">> >>
             => column_names = << <<"a">>, <<"a", "2">>, <<"a", "2", "2">> >>
        /\ header_row = << <<"a", "2">>, <<"a">>, <<"a">> >>
             => column_names = << <<"a", "2">>, <<"a">>, <<"a", "3">> >>

\* C4's case: a raw header equal to a suffixed name made before it
SuffixedNameTaken ==
    /\ names_done
    /\ header_row = << <<"a">>, <<"a">>, <<"a", "2">> >>
    /\ column_names = << <<"a">>, <<"a", "2">>, <<"a", "2", "2">> >>

\* The number of underscores a string starts with, and ends with
LeadingRun(s) == Cardinality({i \in DOMAIN s : \A j \in 1..i : s[j] = "_"})
TrailingRun(s) == Cardinality({i \in DOMAIN s : \A j \in i..Len(s) : s[j] = "_"})

\* The header lowercased, every character outside [a-z0-9_] an underscore
Lowered(s) ==
    [i \in DOMAIN s |->
        IF Lower(s[i]) \in Range(LowerCase) \cup Range(Digits) \cup {"_"}
        THEN Lower(s[i]) ELSE "_"]

\* C9 as stated: runs of underscores inside the name are collapsed, and a
\* run of two or more at the start or at the end is kept whole.
EdgeRunsAreKept ==
    (names_done /\ Len(header_row) = 1) =>
        LET s == Lowered(header_row[1])
            name == column_names[1]
        IN /\ LeadingRun(s) >= 2 => LeadingRun(name) = LeadingRun(s)
           /\ TrailingRun(s) >= 2 => TrailingRun(name) = TrailingRun(s)

\* C9 amended: the name is the header lowercased, every character outside
\* [a-z0-9_] replaced by an underscore, and every run of underscores, at the
\* start and at the end as inside, cut to its first underscore.
EveryRunIsCollapsed ==
    (names_done /\ Len(header_row) = 1) =>
        LET s == Lowered(header_row[1])
            name == column_names[1]
            first == {i \in DOMAIN s : s[i] # "_" \/ i = 1 \/ s[i - 1] # "_"}
        IN /\ Len(name) = Cardinality(first)
           /\ \A i \in first : name[Cardinality({j \in first : j <= i})] = s[i]
           /\ \A i \in 1..(Len(name) - 1) : ~(name[i] = "_" /\ name[i + 1] = "_")
           /\ LeadingRun(s) >= 1 => LeadingRun(name) = 1
           /\ TrailingRun(s) >= 1 => TrailingRun(name) = 1

\* C9's case: runs of two at the start and at the end
EdgeRunsCollapsed ==
    /\ names_done
    /\ header_row = << <<"-", "_", "B", "-">> >>
    /\ column_names = << <<"_", "b", "_">> >>

\* C5: to_db_value returns for every cell, and a cell that is an integer
\* after its currency character gives that Integer when it is in
\* -2^63 .. 2^63 - 1 and a Float when it is not.
CoercionIsTotal ==
    value_done =>
        /\ db_value.tag \in {"Null", "Integer", "Float", "Text"}
        /\ cell # <<>> =>
             LET value == IntParse(IF cell[1] \in Currency THEN Tail(cell) ELSE cell)
             IN value.ok =>
                  IF InInt64(value.neg, value.mag)
                  THEN db_value = Integer(value.neg, value.mag)
                  ELSE db_value.tag = "Float"

\* A cell's text with the blanks of print_table's padding removed
Unpadded(s) ==
    LET inked == {i \in DOMAIN s : s[i] # " "}
    IN IF inked = {} THEN <<>>
       ELSE SubSeq(s, 1, CHOOSE i \in inked : \A j \in inked : j <= i)

ShownAs(value) ==
    IF value.tag = "Null" THEN <<"N", "U", "L", "L">> ELSE PyStr(value)

\* C6: after a statement that ran as row-producing with a result of n rows,
\* what is printed is the header, the first min(n, 20) rows in the order of
\* the cursor, and one summary: truncation exactly when n > 20, the total n
\* exactly when 1 <= n <= 20, zero rows exactly when n = 0.
PreviewIsExact ==
    (RanRowProducing(cmd, out) /\ cmd.query.op = "SELECT * FROM") =>
        LET table == working[cmd.query.table]
            n == Len(table.rows)
            shown == Min(n, PreviewRows)
        IN /\ Len(out) = 1 + shown + 1
           /\ [c \in DOMAIN out[1].cells |-> Unpadded(out[1].cells[c])] = table.columns
           /\ \A i \in 1..shown :
                [c \in DOMAIN out[1 + i].cells |-> Unpadded(out[1 + i].cells[c])]
                    = [c \in DOMAIN table.rows[i] |-> ShownAs(table.rows[i][c])]
           /\ Last(out) = Message("Output first 20 rows.") <=> n > PreviewRows
           /\ Last(out) = Line("Output all row(s).", n, <<>>) <=> (1 <= n /\ n <= PreviewRows)
           /\ Last(out) = Message("Query returned zero rows.") <=> n = 0

\* C6's case: a result of exactly 20 rows
PreviewOfTwenty ==
    /\ RanRowProducing(cmd, out)
    /\ Len(working[PlainName].rows) = PreviewRows
    /\ Last(out) = Line("Output all row(s).", PreviewRows, <<>>)

\* The table a completed import of a file makes
ImportedTable(filename) ==
    LET lines == Contents(filename).lines
    IN Table(to_column_names(lines[1]),
             [r \in 1..(Len(lines) - 1) |->
                 [c \in DOMAIN lines[r + 1] |-> to_db_value(lines[r + 1][c])]])

Importable(filename) ==
    /\ Contents(filename).exists
    /\ Contents(filename).lines # <<>>
    /\ <<>> \notin Range(Contents(filename).lines[1])

\* The field the round trip gives a cell: empty for an empty cell, the bare
\* integer for an integer with or without a currency character, the cell
\* itself for text
RoundTripField(str_) ==
    LET value == to_db_value(str_)
    IN IF str_ = <<>> THEN <<>>
       ELSE IF value.tag = "Integer" THEN IntStr(value.neg, value.txt)
       ELSE IF value.tag = "Text" THEN str_
       ELSE FloatRepr(value.txt)

\* export has run the remembered query and opened the destination
Exported ==
    /\ cmd.line = "export"
    /\ executed = <<last_query>>
    /\ Execute(last_query, working).error = ""
    /\ Writable(cmd.filename)

\* C7: when the table that SELECT * is exported from is the one an import
\* of a file made, the file written holds the derived column names and then
\* the file's rows in order, each cell as RoundTripField gives it; for the
\* header Name, Amount and the rows Ann, $50 and Bo, (empty) that is
\* name,amount / Ann,50 / Bo,.
RoundTrip ==
    \A filename \in ImportNames :
        (/\ Exported
         /\ last_query = Select(PlainName)
         /\ Importable(filename)
         /\ working[PlainName] = ImportedTable(filename)) =>
            LET lines == Contents(filename).lines
                written == files[cmd.filename].lines
            IN /\ Len(written) = Len(lines)
               /\ written[1] = working[PlainName].columns
               /\ \A r \in 2..Len(lines) :
                    written[r] = [c \in DOMAIN lines[r] |-> RoundTripField(lines[r][c])]
               /\ filename = "pay.csv" =>
                    written = << << <<"n", "a", "m", "e">>,
                                    <<"a", "m", "o", "u", "n", "t">> >>,
                                 << <<"A", "n", "n">>, <<"5", "0">> >>,
                                 << <<"B", "o">>, <<>> >> >>

\* C7's case: the example has been imported and exported
RoundTripOfExample ==
    /\ Exported
    /\ working[PlainName] = ImportedTable("pay.csv")
    /\ files["out.csv"].lines[3] = << <<"B", "o">>, <<>> >>

\* C8: an export whose query ran, with a result of n rows, n = 0 included,
\* has written the header and the n rows, has printed a progress line at
\* each positive multiple of 10,000 rows written, and ends by reporting n.
ExportReportsTotal ==
    Exported =>
        LET n == Len(Execute(last_query, working).result)
        IN /\ Len(files[cmd.filename].lines) = n + 1
           /\ out = [i \in 1..((n - 1) \div ProgressEvery) |->
                        Line("Exported rows...", i * ProgressEvery, <<>>)]
                    \o <<Line("Exported row(s).", n, <<>>)>>

\* C10: of a batch whose insert raised, the database file holds the rows
\* committed before it and then every row of the batch or none, whatever
\* commands follow.
BatchIsAtomic ==
    (failed_batch # NoBatch /\ committed[failed_batch.table].exists) =>
        LET kept == Len(committed[failed_batch.table].rows) - failed_batch.base
        IN /\ (cmd.line = "import" /\ IsError(out)) => kept = 0
           /\ kept <= 0 \/ kept = Len(failed_batch.batch)

=============================================================================
